---------------------------- MODULE Spec2Model ----------------------------
(***************************************************************************)
(* Model of hir_def's reverse source index (child_by_source.rs) and of the *)
(* DefMap diagnostics constructors (nameres/diagnostics.rs).               *)
(*                                                                         *)
(* A traversal is modelled loop iteration by loop iteration: every `for`   *)
(* / `for_each` of the source is a pair of actions, one that runs the loop *)
(* body on the next element the database hands out and one that leaves the *)
(* loop.  The elements handed out so far are kept in `visited`.            *)
(***************************************************************************)
EXTENDS Integers, FiniteSets, Sequences

VARIABLES
    self,       \* the container whose child_by_source_to is running
    pc,         \* position inside the traversal
    entry,      \* which trait method the caller used
    res,        \* the DynMap being filled: a set of [key, loc, id] entries
    map0,       \* the content of the DynMap when the call was entered
    visited,    \* the children the iterators have yielded in this call
    block,      \* DefWithBodyId: number of body blocks entered so far
    diag_log    \* the two most recent DefDiagnostic constructions

vars == <<self, pc, entry, res, map0, visited, block, diag_log>>

---------------------------------------------------------------------------
(* Bounds of the model. *)

\* source locations (syntax nodes of one node type) a snapshot can hold
NumLocs == 2
\* children yielded into one DynMap (entries present at entry included)
MaxChildren == 2
\* inline blocks of one body
MaxBlocks == 2
\* modules of the DefMap that diagnostics can be attached to
NumModules == 2

Locs == 1..NumLocs
\* a child for which the traversal obtains no source location
NoLoc == 0

---------------------------------------------------------------------------
(* Ids of the definition graph. *)

Id(kind, idx) == [kind |-> kind, idx |-> idx]

FunctionIds == {Id("FunctionId", i) : i \in {0, 1}}
ConstIds == {Id("ConstId", i) : i \in {0, 1}}
StaticIds == {Id("StaticId", 0)}
TypeAliasIds == {Id("TypeAliasId", 0)}
TraitIds == {Id("TraitId", 0)}
StructIds == {Id("StructId", 0)}
UnionIds == {Id("UnionId", 0)}
EnumIds == {Id("EnumId", i) : i \in {0, 1}}
ImplIds == {Id("ImplId", 0)}
MacroCallIds == {Id("MacroCallId", 0)}
\* ModuleDefId variants that add_module_def sends to its `_` arm
OtherModuleDefIds == {Id("ModuleId", 1), Id("BuiltinType", 0)}

AssocItemIds == FunctionIds \cup ConstIds \cup TypeAliasIds
AdtIds == StructIds \cup UnionIds \cup EnumIds
ModuleDefIds ==
    FunctionIds \cup ConstIds \cup StaticIds \cup TypeAliasIds \cup TraitIds
        \cup AdtIds \cup OtherModuleDefIds

EnumVariantId(parent, local_id) ==
    [kind |-> "EnumVariantId", parent |-> parent, local_id |-> local_id]
FieldId(parent, local_id) ==
    [kind |-> "FieldId", parent |-> parent, local_id |-> local_id]

\* the receivers of child_by_source / child_by_source_to
Containers ==
    {[as |-> "TraitId", id |-> i] : i \in TraitIds}
        \cup {[as |-> "ImplId", id |-> i] : i \in ImplIds}
        \cup {[as |-> "ModuleId", id |-> Id("ModuleId", 0)]}
        \cup {[as |-> "ItemScope", id |-> Id("ItemScope", 0)]}
        \cup {[as |-> "VariantId", id |-> i] :
                i \in StructIds \cup {EnumVariantId(Id("EnumId", 0), 0)}}
        \cup {[as |-> "EnumId", id |-> i] : i \in EnumIds}
        \cup {[as |-> "DefWithBodyId", id |-> Id("FunctionId", 0)]}

NoContainer == [as |-> "none", id |-> Id("none", 0)]

---------------------------------------------------------------------------
(* The DynMap: one location -> id bucket per key. *)

Keys ==
    {"FUNCTION", "CONST", "STATIC", "TYPE_ALIAS", "TRAIT", "STRUCT", "UNION",
     "ENUM", "IMPL", "VARIANT", "TUPLE_FIELD", "RECORD_FIELD", "ATTR_MACRO"}

Entry(key, loc, id) == [key |-> key, loc |-> loc, id |-> id]

DynMapDefault == {}

\* a bucket insert that leaves an entry already stored at the location alone
InsertKeepFirst(map, key, loc, id) ==
    IF \E e \in map : e.key = key /\ e.loc = loc
    THEN map
    ELSE map \cup {Entry(key, loc, id)}

\* map[key].insert(loc, id)
Insert(map, key, loc, id) ==
    {e \in map : ~(e.key = key /\ e.loc = loc)} \cup {Entry(key, loc, id)}

\* map[key].get(loc), as the set of ids stored there
Lookup(map, key, loc) == {e.id : e \in {x \in map : x.key = key /\ x.loc = loc}}

Slots(map) == {<<e.key, e.loc>> : e \in map}

---------------------------------------------------------------------------
(* What the database hands to the traversal. *)

\* an element of one of the iterated collections, with the database's answer
\* to the source query the loop body makes for it
Child(coll, id, src, blk) == [coll |-> coll, id |-> id, src |-> src, block |-> blk]

\* id.lookup(db).source(db)
Source(item) == item.src

AssocItems(blk) == {Child("assoc", i, l, blk) : i \in AssocItemIds, l \in Locs}
Declarations(blk) ==
    {Child("decl", i, l, blk) : i \in ModuleDefIds \ OtherModuleDefIds, l \in Locs}
        \cup {Child("decl", i, NoLoc, blk) : i \in OtherModuleDefIds}
UnnamedConsts(blk) == {Child("unnamed_const", i, l, blk) : i \in ConstIds, l \in Locs}
Impls(blk) == {Child("impl", i, l, blk) : i \in ImplIds, l \in Locs}
AttrMacroInvocs(blk) == {Child("attr", i, l, blk) : i \in MacroCallIds, l \in Locs}
\* an ArenaMap slot: (local_id, Either<ast::TupleField, ast::RecordField>)
FieldSlots(n) ==
    {Child("field", [kind |-> side, local_id |-> n], l, 0) :
        side \in {"Left", "Right"}, l \in Locs}
\* an ArenaMap slot: (local_id, ast::Variant)
VariantSlots(n) == {Child("variant", [kind |-> "Slot", local_id |-> n], l, 0) : l \in Locs}

\* the syntax node type of a child's source
NodeType(c) ==
    CASE c.coll = "attr" -> "ast::Item"
      [] c.coll = "variant" -> "ast::Variant"
      [] c.coll = "field" ->
            IF c.id.kind = "Left" THEN "ast::TupleField" ELSE "ast::RecordField"
      [] c.id.kind = "FunctionId" -> "ast::Fn"
      [] c.id.kind = "ConstId" -> "ast::Const"
      [] c.id.kind = "StaticId" -> "ast::Static"
      [] c.id.kind = "TypeAliasId" -> "ast::TypeAlias"
      [] c.id.kind = "TraitId" -> "ast::Trait"
      [] c.id.kind = "StructId" -> "ast::Struct"
      [] c.id.kind = "UnionId" -> "ast::Union"
      [] c.id.kind = "EnumId" -> "ast::Enum"
      [] c.id.kind = "ImplId" -> "ast::Impl"
      [] OTHER -> "none"

\* the syntax node type a key's bucket is keyed by
NodeTypeOfKey(key) ==
    CASE key = "FUNCTION" -> "ast::Fn"
      [] key = "CONST" -> "ast::Const"
      [] key = "STATIC" -> "ast::Static"
      [] key = "TYPE_ALIAS" -> "ast::TypeAlias"
      [] key = "TRAIT" -> "ast::Trait"
      [] key = "STRUCT" -> "ast::Struct"
      [] key = "UNION" -> "ast::Union"
      [] key = "ENUM" -> "ast::Enum"
      [] key = "IMPL" -> "ast::Impl"
      [] key = "VARIANT" -> "ast::Variant"
      [] key = "TUPLE_FIELD" -> "ast::TupleField"
      [] key = "RECORD_FIELD" -> "ast::RecordField"
      [] key = "ATTR_MACRO" -> "ast::Item"

\* the nodes of type t this call has met: in the map it was handed, or as
\* the source of a child already yielded
SeenLocs(t) ==
    {v.src : v \in {x \in visited : NodeType(x) = t}}
        \cup {e.loc : e \in {x \in map0 : NodeTypeOfKey(x.key) = t}}

\* One snapshot gives one child one node: a child is yielded once, and two
\* children of one container never share a syntax node.  Nodes are opaque and
\* only ever compared, so a node not met before takes the smallest unused
\* number of its type.
Yieldable(c) ==
    /\ Cardinality(map0) + Cardinality(visited) < MaxChildren
    /\ \A v \in visited :
        /\ ~(v.coll = c.coll /\ v.id = c.id /\ v.block = c.block)
        /\ ~(v.id = c.id /\ c.coll \in {"assoc", "decl", "unnamed_const", "impl"})
        /\ ~(c.src # NoLoc /\ NodeType(v) = NodeType(c) /\ v.src = c.src)
    /\ c.src # NoLoc => c.src <= Cardinality(SeenLocs(NodeType(c))) + 1

---------------------------------------------------------------------------
(* Loop bodies. *)

\* TraitId: TYPE_ALIAS items filed under STATIC
TraitItemMisfiled(map, item) ==
    CASE item.id.kind = "FunctionId" -> Insert(map, "FUNCTION", Source(item), item.id)
      [] item.id.kind = "ConstId" -> Insert(map, "CONST", Source(item), item.id)
      [] item.id.kind = "TypeAliasId" -> Insert(map, "STATIC", Source(item), item.id)

TraitItem(map, item) ==
    CASE item.id.kind = "FunctionId" -> Insert(map, "FUNCTION", Source(item), item.id)
      [] item.id.kind = "ConstId" -> Insert(map, "CONST", Source(item), item.id)
      [] item.id.kind = "TypeAliasId" -> Insert(map, "TYPE_ALIAS", Source(item), item.id)

\* ImplId: a function replaces the FUNCTION bucket instead of joining it
ImplItemResetBucket(map, item) ==
    CASE item.id.kind = "FunctionId" ->
            {e \in map : e.key # "FUNCTION"}
                \cup {Entry("FUNCTION", Source(item), item.id)}
      [] item.id.kind = "ConstId" -> Insert(map, "CONST", Source(item), item.id)
      [] item.id.kind = "TypeAliasId" -> Insert(map, "TYPE_ALIAS", Source(item), item.id)

ImplItem(map, item) ==
    CASE item.id.kind = "FunctionId" -> Insert(map, "FUNCTION", Source(item), item.id)
      [] item.id.kind = "ConstId" -> Insert(map, "CONST", Source(item), item.id)
      [] item.id.kind = "TypeAliasId" -> Insert(map, "TYPE_ALIAS", Source(item), item.id)

\* add_module_def with the StaticId arm writing to the CONST bucket
add_module_def_static_as_const(map, item) ==
    CASE item.id.kind = "FunctionId" -> Insert(map, "FUNCTION", Source(item), item.id)
      [] item.id.kind = "ConstId" -> Insert(map, "CONST", Source(item), item.id)
      [] item.id.kind = "StaticId" -> Insert(map, "CONST", Source(item), item.id)
      [] item.id.kind = "TypeAliasId" -> Insert(map, "TYPE_ALIAS", Source(item), item.id)
      [] item.id.kind = "TraitId" -> Insert(map, "TRAIT", Source(item), item.id)
      [] item.id.kind = "StructId" -> Insert(map, "STRUCT", Source(item), item.id)
      [] item.id.kind = "UnionId" -> Insert(map, "UNION", Source(item), item.id)
      [] item.id.kind = "EnumId" -> Insert(map, "ENUM", Source(item), item.id)
      [] OTHER -> map

\* add_module_def without the `_ => ()` arm: every other ModuleDefId is filed
\* like a struct
add_module_def_no_default(map, item) ==
    CASE item.id.kind = "FunctionId" -> Insert(map, "FUNCTION", Source(item), item.id)
      [] item.id.kind = "ConstId" -> Insert(map, "CONST", Source(item), item.id)
      [] item.id.kind = "StaticId" -> Insert(map, "STATIC", Source(item), item.id)
      [] item.id.kind = "TypeAliasId" -> Insert(map, "TYPE_ALIAS", Source(item), item.id)
      [] item.id.kind = "TraitId" -> Insert(map, "TRAIT", Source(item), item.id)
      [] item.id.kind = "UnionId" -> Insert(map, "UNION", Source(item), item.id)
      [] item.id.kind = "EnumId" -> Insert(map, "ENUM", Source(item), item.id)
      [] OTHER -> Insert(map, "STRUCT", Source(item), item.id)

add_module_def(map, item) ==
    CASE item.id.kind = "FunctionId" -> Insert(map, "FUNCTION", Source(item), item.id)
      [] item.id.kind = "ConstId" -> Insert(map, "CONST", Source(item), item.id)
      [] item.id.kind = "StaticId" -> Insert(map, "STATIC", Source(item), item.id)
      [] item.id.kind = "TypeAliasId" -> Insert(map, "TYPE_ALIAS", Source(item), item.id)
      [] item.id.kind = "TraitId" -> Insert(map, "TRAIT", Source(item), item.id)
      [] item.id.kind = "StructId" -> Insert(map, "STRUCT", Source(item), item.id)
      [] item.id.kind = "UnionId" -> Insert(map, "UNION", Source(item), item.id)
      [] item.id.kind = "EnumId" -> Insert(map, "ENUM", Source(item), item.id)
      [] OTHER -> map

\* the unnamed_consts closure
unnamed_const(map, konst) == Insert(map, "CONST", Source(konst), konst.id)

add_impl(map, imp) == Insert(map, "IMPL", Source(imp), imp.id)

\* the attr_macro_invocs closure: (ast_id, call_id), keyed by ast_id's node
attr_macro_invoc(map, invoc) == Insert(map, "ATTR_MACRO", Source(invoc), invoc.id)

\* VariantId: every slot filed as a positional field
FieldSlotAllTuple(map, parent, slot) ==
    Insert(map, "TUPLE_FIELD", slot.src, FieldId(parent, slot.id.local_id))

FieldSlot(map, parent, slot) ==
    CASE slot.id.kind = "Left" ->
            Insert(map, "TUPLE_FIELD", slot.src, FieldId(parent, slot.id.local_id))
      [] slot.id.kind = "Right" ->
            Insert(map, "RECORD_FIELD", slot.src, FieldId(parent, slot.id.local_id))

\* EnumId: every variant given local id 0
VariantSlotFirstId(map, parent, slot) ==
    Insert(map, "VARIANT", slot.src, EnumVariantId(parent, 0))

VariantSlot(map, parent, slot) ==
    Insert(map, "VARIANT", slot.src, EnumVariantId(parent, slot.id.local_id))

\* the loop body that a child of collection c.coll goes through
Visit(map, container, c) ==
    CASE c.coll = "assoc" /\ container.as = "TraitId" -> TraitItem(map, c)
      [] c.coll = "assoc" /\ container.as = "ImplId" -> ImplItem(map, c)
      [] c.coll = "decl" -> add_module_def(map, c)
      [] c.coll = "unnamed_const" -> unnamed_const(map, c)
      [] c.coll = "impl" -> add_impl(map, c)
      [] c.coll = "attr" -> attr_macro_invoc(map, c)
      [] c.coll = "field" -> FieldSlot(map, container.id, c)
      [] c.coll = "variant" -> VariantSlot(map, container.id, c)

---------------------------------------------------------------------------
(* Entering a traversal. *)

\* child_by_source run on the caller's old map instead of a new one
ChildBySourceMapReused == res

\* child_by_source: let mut res = DynMap::default()
ChildBySourceMap == DynMapDefault

\* the four for_each of ItemScope::child_by_source_to, in order
ScopeLoops == <<"declarations", "unnamed_consts", "impls", "attr_macro_invocs">>

\* the loop a container's child_by_source_to starts in
FirstLoop(c) ==
    CASE c.as = "TraitId" -> "trait_items"
      [] c.as = "ImplId" -> "impl_items"
      [] c.as = "ModuleId" -> ScopeLoops[1]
      [] c.as = "ItemScope" -> ScopeLoops[1]
      [] c.as = "VariantId" -> "fields"
      [] c.as = "EnumId" -> "variants"
      [] c.as = "DefWithBodyId" -> "blocks"

Enter(c, map, how) ==
    /\ self' = c
    /\ entry' = how
    /\ res' = map
    /\ map0' = map
    /\ visited' = {}
    /\ block' = 0
    /\ pc' = FirstLoop(c)
    /\ UNCHANGED diag_log

child_by_source(c) ==
    /\ pc \in {"idle", "done"}
    /\ Enter(c, ChildBySourceMap, "child_by_source")

\* a caller passes in a map that already holds entries (on an empty one the
\* call is child_by_source's)
child_by_source_to(c) ==
    /\ pc \in {"idle", "done"}
    /\ res # DynMapDefault
    /\ Cardinality(res) < MaxChildren
    /\ Enter(c, res, "child_by_source_to")

Step(c, next) ==
    /\ Yieldable(c)
    /\ res' = Visit(res, self, c)
    /\ visited' = visited \cup {c}
    /\ pc' = next
    /\ UNCHANGED <<self, entry, map0, block, diag_log>>

Goto(next) ==
    /\ pc' = next
    /\ UNCHANGED <<self, entry, res, map0, visited, block, diag_log>>

---------------------------------------------------------------------------
(* TraitId, ImplId *)

TraitLoop == pc = "trait_items" /\ \E item \in AssocItems(0) : Step(item, pc)
TraitEnd == pc = "trait_items" /\ Goto("done")

ImplLoop == pc = "impl_items" /\ \E item \in AssocItems(0) : Step(item, pc)
ImplEnd == pc = "impl_items" /\ Goto("done")

(* ItemScope (ModuleId delegates to its scope; a body runs it per block).  *)
(* The four for_each run one after the other; an iteration of a later one  *)
(* first exhausts the iterators before it.                                 *)

\* pc is in the scope traversal, at or before its n-th for_each
AtOrBefore(n) == \E i \in 1..n : pc = ScopeLoops[i]

DeclarationsLoop ==
    AtOrBefore(1) /\ \E item \in Declarations(block) : Step(item, ScopeLoops[1])

UnnamedConstsLoop ==
    AtOrBefore(2) /\ \E konst \in UnnamedConsts(block) : Step(konst, ScopeLoops[2])

ImplsLoop == AtOrBefore(3) /\ \E imp \in Impls(block) : Step(imp, ScopeLoops[3])

AttrMacroInvocsLoop ==
    AtOrBefore(4) /\ \E invoc \in AttrMacroInvocs(block) : Step(invoc, ScopeLoops[4])

\* all four iterators are exhausted and ItemScope::child_by_source_to returns
ScopeEnd == AtOrBefore(4) /\ self.as # "DefWithBodyId" /\ Goto("done")

(* VariantId, EnumId *)

FieldsLoop ==
    pc = "fields" /\ \E slot \in FieldSlots(Cardinality(visited)) : Step(slot, pc)
FieldsEnd == pc = "fields" /\ Goto("done")

VariantsLoop ==
    pc = "variants" /\ \E slot \in VariantSlots(Cardinality(visited)) : Step(slot, pc)
VariantsEnd == pc = "variants" /\ Goto("done")

(* DefWithBodyId *)

\* every block's scope indexed into a map of its own, which replaces res
BlockMapFresh(map) == DynMapDefault

\* def_map[def_map.root()].scope.child_by_source_to(db, res)
BlockMap(map) == map

\* body.blocks(db) yields its first block, or the scope traversal of the
\* block before has returned and it yields the next one
BlocksLoop ==
    /\ self.as = "DefWithBodyId"
    /\ pc = "blocks" \/ AtOrBefore(4)
    /\ block < MaxBlocks
    /\ block' = block + 1
    /\ res' = BlockMap(res)
    /\ pc' = ScopeLoops[1]
    /\ UNCHANGED <<self, entry, map0, visited, diag_log>>

BlocksEnd ==
    /\ self.as = "DefWithBodyId"
    /\ pc = "blocks" \/ AtOrBefore(4)
    /\ Goto("done")

---------------------------------------------------------------------------
(* nameres/diagnostics.rs: the DefDiagnostic constructors. *)

LocalModuleIds == 0..(NumModules - 1)
AstIds == {"ast#1", "ast#2"}
Candidates == {"foo.rs", "foo/mod.rs"}
ItemTreeIds == {"import#1", "import#2"}
UseTreeIdxs == {0, 1}
CfgExprs == {"test", "feature = \"x\""}
CfgOptionss == {"[]", "[test]"}
MacroCallKinds == {"FnLike", "Derive"}
ModPaths == {"foo!", "bar::baz!"}
Messages == {"boom", "overflow"}

unresolved_module(container, declaration, candidate) ==
    [in_module |-> container,
     kind |-> [tag |-> "UnresolvedModule", ast |-> declaration, candidate |-> candidate]]

unresolved_extern_crate(container, declaration) ==
    [in_module |-> container,
     kind |-> [tag |-> "UnresolvedExternCrate", ast |-> declaration]]

\* unresolved_import that records the statement but not the failing use tree
unresolved_import_whole_statement(container, id, index) ==
    [in_module |-> container,
     kind |-> [tag |-> "UnresolvedImport", id |-> id, index |-> 0]]

unresolved_import(container, id, index) ==
    [in_module |-> container,
     kind |-> [tag |-> "UnresolvedImport", id |-> id, index |-> index]]

unconfigured_code(container, ast, cfg, opts) ==
    [in_module |-> container,
     kind |-> [tag |-> "UnconfiguredCode", ast |-> ast, cfg |-> cfg, opts |-> opts]]

unresolved_proc_macro(container, ast) ==
    [in_module |-> container, kind |-> [tag |-> "UnresolvedProcMacro", ast |-> ast]]

macro_error(container, ast, message) ==
    [in_module |-> container,
     kind |-> [tag |-> "MacroError", ast |-> ast, message |-> message]]

unresolved_macro_call(container, ast, path) ==
    [in_module |-> container,
     kind |-> [tag |-> "UnresolvedMacroCall", ast |-> ast, path |-> path]]

unimplemented_builtin_macro(container, ast) ==
    [in_module |-> container, kind |-> [tag |-> "UnimplementedBuiltinMacro", ast |-> ast]]

\* the collector calls a constructor: the call and what it returned are kept
\* (the two most recent ones)
Logged(fn, args, ret) ==
    LET call == [fn |-> fn, args |-> args, ret |-> ret]
    IN  IF Len(diag_log) < 2 THEN Append(diag_log, call) ELSE <<diag_log[2], call>>

index_vars == <<self, pc, entry, res, map0, visited, block>>

UnresolvedModule ==
    /\ \E container \in LocalModuleIds, declaration \in AstIds, candidate \in Candidates :
        diag_log' = Logged("unresolved_module",
            [container |-> container, declaration |-> declaration,
             candidate |-> candidate],
            unresolved_module(container, declaration, candidate))
    /\ UNCHANGED index_vars

UnresolvedExternCrate ==
    /\ \E container \in LocalModuleIds, declaration \in AstIds :
        diag_log' = Logged("unresolved_extern_crate",
            [container |-> container, declaration |-> declaration],
            unresolved_extern_crate(container, declaration))
    /\ UNCHANGED index_vars

UnresolvedImport ==
    /\ \E container \in LocalModuleIds, id \in ItemTreeIds, index \in UseTreeIdxs :
        diag_log' = Logged("unresolved_import",
            [container |-> container, id |-> id, index |-> index],
            unresolved_import(container, id, index))
    /\ UNCHANGED index_vars

UnconfiguredCode ==
    /\ \E container \in LocalModuleIds, ast \in AstIds, cfg \in CfgExprs, opts \in CfgOptionss :
        diag_log' = Logged("unconfigured_code",
            [container |-> container, ast |-> ast, cfg |-> cfg, opts |-> opts],
            unconfigured_code(container, ast, cfg, opts))
    /\ UNCHANGED index_vars

UnresolvedProcMacro ==
    /\ \E container \in LocalModuleIds, ast \in MacroCallKinds :
        diag_log' = Logged("unresolved_proc_macro",
            [container |-> container, ast |-> ast],
            unresolved_proc_macro(container, ast))
    /\ UNCHANGED index_vars

MacroError ==
    /\ \E container \in LocalModuleIds, ast \in MacroCallKinds, message \in Messages :
        diag_log' = Logged("macro_error",
            [container |-> container, ast |-> ast, message |-> message],
            macro_error(container, ast, message))
    /\ UNCHANGED index_vars

UnresolvedMacroCall ==
    /\ \E container \in LocalModuleIds, ast \in AstIds, path \in ModPaths :
        diag_log' = Logged("unresolved_macro_call",
            [container |-> container, ast |-> ast, path |-> path],
            unresolved_macro_call(container, ast, path))
    /\ UNCHANGED index_vars

UnimplementedBuiltinMacro ==
    /\ \E container \in LocalModuleIds, ast \in AstIds :
        diag_log' = Logged("unimplemented_builtin_macro",
            [container |-> container, ast |-> ast],
            unimplemented_builtin_macro(container, ast))
    /\ UNCHANGED index_vars

---------------------------------------------------------------------------
Init ==
    /\ self = NoContainer
    /\ pc = "idle"
    /\ entry = "none"
    /\ res = DynMapDefault
    /\ map0 = DynMapDefault
    /\ visited = {}
    /\ block = 0
    /\ diag_log = <<>>

Next ==
    \/ \E c \in Containers : child_by_source(c)
    \/ \E c \in Containers : child_by_source_to(c)
    \/ TraitLoop
    \/ TraitEnd
    \/ ImplLoop
    \/ ImplEnd
    \/ DeclarationsLoop
    \/ UnnamedConstsLoop
    \/ ImplsLoop
    \/ AttrMacroInvocsLoop
    \/ ScopeEnd
    \/ FieldsLoop
    \/ FieldsEnd
    \/ VariantsLoop
    \/ VariantsEnd
    \/ BlocksLoop
    \/ BlocksEnd

Spec == Init /\ [][Next]_vars

NextDiag ==
    \/ UnresolvedModule
    \/ UnresolvedExternCrate
    \/ UnresolvedImport
    \/ UnconfiguredCode
    \/ UnresolvedProcMacro
    \/ MacroError
    \/ UnresolvedMacroCall
    \/ UnimplementedBuiltinMacro

SpecDiag == Init /\ [][NextDiag]_vars

---------------------------------------------------------------------------
(* Whole traversals as functions, built from the loop bodies above. *)

\* the loop bodies run on the children of `order`, in that order
RECURSIVE RunInOrder(_, _, _)
RunInOrder(map, container, order) ==
    IF order = <<>>
    THEN map
    ELSE RunInOrder(Visit(map, container, Head(order)), container, Tail(order))

\* a for_each over the collection S
RECURSIVE ForEach(_, _, _)
ForEach(map, container, S) ==
    IF S = {}
    THEN map
    ELSE LET c == CHOOSE x \in S : TRUE
         IN  ForEach(Visit(map, container, c), container, S \ {c})

\* ItemScope::child_by_source_to on the scope whose four collections hold S
ItemScopeChildBySourceTo(map, container, S) ==
    LET of(coll) == {c \in S : c.coll = coll}
        decls == ForEach(map, container, of("decl"))
        consts == ForEach(decls, container, of("unnamed_const"))
        impls == ForEach(consts, container, of("impl"))
    IN  ForEach(impls, container, of("attr"))

---------------------------------------------------------------------------
(* Vocabulary of the properties. *)

Done == pc = "done"

\* the call started from a new map
FromDefault == entry = "child_by_source"

\* the bucket of a child's kind; "none" for a kind the index has no bucket for
BucketOf(c) ==
    CASE c.coll = "attr" -> "ATTR_MACRO"
      [] c.coll = "variant" -> "VARIANT"
      [] c.coll = "field" /\ c.id.kind = "Left" -> "TUPLE_FIELD"
      [] c.coll = "field" /\ c.id.kind = "Right" -> "RECORD_FIELD"
      [] c.id.kind = "FunctionId" -> "FUNCTION"
      [] c.id.kind = "ConstId" -> "CONST"
      [] c.id.kind = "StaticId" -> "STATIC"
      [] c.id.kind = "TypeAliasId" -> "TYPE_ALIAS"
      [] c.id.kind = "TraitId" -> "TRAIT"
      [] c.id.kind = "StructId" -> "STRUCT"
      [] c.id.kind = "UnionId" -> "UNION"
      [] c.id.kind = "EnumId" -> "ENUM"
      [] c.id.kind = "ImplId" -> "IMPL"
      [] OTHER -> "none"

HasBucket(c) == BucketOf(c) # "none"

\* the semantic id of a child of the running container
ChildId(c) ==
    CASE c.coll = "variant" -> EnumVariantId(self.id, c.id.local_id)
      [] c.coll = "field" -> FieldId(self.id, c.id.local_id)
      [] OTHER -> c.id

\* the entry a child is expected to leave in the index
EntryOf(c) == Entry(BucketOf(c), c.src, ChildId(c))

\* every order in which the children S can be enumerated
Orders(S) ==
    {f \in [1..Cardinality(S) -> S] :
        \A i, j \in 1..Cardinality(S) : i # j => f[i] # f[j]}

---------------------------------------------------------------------------
(* C1 *)

\* C1 as stated: after child_by_source(C) every declared child of C, every
\* member of declarations() included, has its id in the index.
C1_EveryDeclaredChildIndexed ==
    (Done /\ FromDefault) =>
        \A c \in visited : \E e \in res : e.id = ChildId(c)

\* C1, amended: after child_by_source(C) every declared child of C whose kind
\* has a bucket is found in that bucket under its source location, and the
\* lookup of that location returns exactly the child's id.
C1_RoundTrip ==
    (Done /\ FromDefault) =>
        \A c \in visited :
            HasBucket(c) => Lookup(res, BucketOf(c), c.src) = {ChildId(c)}

C1_Witness ==
    /\ Done /\ FromDefault
    /\ self.as = "ItemScope"
    /\ \E c, d \in visited :
        /\ c.coll = "decl" /\ c.id.kind = "StaticId"
        /\ d.coll = "attr"
        /\ {EntryOf(c), EntryOf(d)} \subseteq res

(* C2 *)

\* C2: an enum with N variant slots yields exactly N entries, all in VARIANT,
\* with ids (E, 0) .. (E, N-1), slot i's entry keyed by slot i's location.
C2_EnumVariants ==
    (Done /\ FromDefault /\ self.as = "EnumId") =>
        LET N == Cardinality(visited)
        IN  /\ Cardinality(res) = N
            /\ \A e \in res : e.key = "VARIANT"
            /\ {e.id : e \in res} = {EnumVariantId(self.id, i) : i \in 0..(N - 1)}
            /\ {c.id.local_id : c \in visited} = 0..(N - 1)
            /\ \A c \in visited :
                Lookup(res, "VARIANT", c.src) = {EnumVariantId(self.id, c.id.local_id)}

C2_Witness ==
    /\ Done /\ FromDefault
    /\ self = [as |-> "EnumId", id |-> Id("EnumId", 1)]
    /\ Cardinality(visited) = 2
    /\ Cardinality(res) = 2

(* C3 *)

InBucket(key, id) == \E e \in res : e.key = key /\ e.id = id

\* C3: every field of a field container is in exactly one of TUPLE_FIELD and
\* RECORD_FIELD: positional slots in the first, named slots in the second.
C3_FieldBuckets ==
    (Done /\ FromDefault /\ self.as = "VariantId") =>
        \A c \in visited :
            LET id == FieldId(self.id, c.id.local_id)
            IN  /\ InBucket("TUPLE_FIELD", id) # InBucket("RECORD_FIELD", id)
                /\ InBucket("TUPLE_FIELD", id) <=> c.id.kind = "Left"
                /\ InBucket("RECORD_FIELD", id) <=> c.id.kind = "Right"

C3_Witness ==
    /\ Done /\ FromDefault /\ self.as = "VariantId"
    /\ \E c, d \in visited : c.id.kind = "Left" /\ d.id.kind = "Right"
    /\ \E e \in res : e.key = "RECORD_FIELD"

(* C4 *)

\* the (key, location) pairs the children yielded so far were inserted at
InsertedSlots == {<<BucketOf(c), c.src>> : c \in {x \in visited : HasBucket(x)}}

\* C4: an insert at a (key, location) that is already present replaces the
\* stored id: the location holds one entry, the last one inserted, and the
\* number of entries is what it was before the insert.
C4_LastWriteWins ==
    /\ \A k \in Keys, l \in Locs : Cardinality(Lookup(res, k, l)) <= 1
    /\ \A c \in visited :
        (HasBucket(c) /\ <<BucketOf(c), c.src>> \in Slots(map0)) =>
            Lookup(res, BucketOf(c), c.src) = {ChildId(c)}
    /\ Cardinality(res) = Cardinality(Slots(map0) \cup InsertedSlots)

C4_Witness ==
    \E c \in visited, e \in map0 :
        /\ HasBucket(c) /\ e.key = BucketOf(c) /\ e.loc = c.src
        /\ e.id # ChildId(c)
        /\ e \notin res
        /\ Cardinality(res) = Cardinality(map0)

(* C5 *)

\* C5: a body's index is the merge of the module-scope indexes of its blocks'
\* root scopes; with no block it is empty.
C5_BodyMerge ==
    (Done /\ FromDefault /\ self.as = "DefWithBodyId") =>
        /\ res =
            UNION {ItemScopeChildBySourceTo(DynMapDefault, self,
                        {c \in visited : c.block = b}) : b \in 1..block}
        /\ block = 0 => res = DynMapDefault

C5_Witness ==
    /\ Done /\ FromDefault /\ self.as = "DefWithBodyId"
    /\ block = 2
    /\ \E c, d \in visited :
        /\ c.block = 1 /\ d.block = 2
        /\ c.id.kind = "FunctionId" /\ d.id.kind = "FunctionId"
        /\ Lookup(res, "FUNCTION", c.src) = {c.id}
        /\ Lookup(res, "FUNCTION", d.src) = {d.id}

(* C6 *)

\* the fields a constructor's record carries besides the tag
Payload(kind) == [f \in DOMAIN kind \ {"tag"} |-> kind[f]]

Documented(call) ==
    LET a == call.args
        k == call.ret.kind
    IN  /\ call.ret.in_module = a.container
        /\ DOMAIN call.ret = {"in_module", "kind"}
        /\ CASE call.fn = "unresolved_module" ->
                    /\ k.tag = "UnresolvedModule"
                    /\ Payload(k) = [ast |-> a.declaration, candidate |-> a.candidate]
             [] call.fn = "unresolved_extern_crate" ->
                    /\ k.tag = "UnresolvedExternCrate"
                    /\ Payload(k) = [ast |-> a.declaration]
             [] call.fn = "unresolved_import" ->
                    /\ k.tag = "UnresolvedImport"
                    /\ Payload(k) = [id |-> a.id, index |-> a.index]
             [] call.fn = "unconfigured_code" ->
                    /\ k.tag = "UnconfiguredCode"
                    /\ Payload(k) = [ast |-> a.ast, cfg |-> a.cfg, opts |-> a.opts]
             [] call.fn = "unresolved_proc_macro" ->
                    /\ k.tag = "UnresolvedProcMacro"
                    /\ Payload(k) = [ast |-> a.ast]
             [] call.fn = "macro_error" ->
                    /\ k.tag = "MacroError"
                    /\ Payload(k) = [ast |-> a.ast, message |-> a.message]
             [] call.fn = "unresolved_macro_call" ->
                    /\ k.tag = "UnresolvedMacroCall"
                    /\ Payload(k) = [ast |-> a.ast, path |-> a.path]
             [] call.fn = "unimplemented_builtin_macro" ->
                    /\ k.tag = "UnimplementedBuiltinMacro"
                    /\ Payload(k) = [ast |-> a.ast]

\* two failures of one import statement, at different use trees
SameImportOtherIndex(x, y) ==
    /\ x.fn = "unresolved_import" /\ y.fn = "unresolved_import"
    /\ x.args.container = y.args.container
    /\ x.args.id = y.args.id
    /\ x.args.index # y.args.index

\* C6: every constructor returns the module it was given and the variant of
\* its kind with exactly the payload it was given; two unresolved imports of
\* one statement that differ in the use-tree index are unequal records.
C6_Constructors ==
    /\ \A i \in DOMAIN diag_log : Documented(diag_log[i])
    /\ \A i, j \in DOMAIN diag_log :
        SameImportOtherIndex(diag_log[i], diag_log[j]) =>
            diag_log[i].ret # diag_log[j].ret

C6_Witness ==
    /\ Len(diag_log) = 2
    /\ SameImportOtherIndex(diag_log[1], diag_log[2])
    /\ diag_log[1].ret.kind.index = 1

(* C7 *)

\* C7: whatever the order in which the children of the container are
\* enumerated, the traversal produces the index that this run produced.
C7_OrderIndependent ==
    Done => \A order \in Orders(visited) : RunInOrder(map0, self, order) = res

C7_Witness ==
    /\ Done /\ FromDefault
    /\ self.as = "ImplId"
    /\ \E c, d \in visited :
        /\ c # d
        /\ c.id.kind = "FunctionId" /\ d.id.kind = "FunctionId"
        /\ {EntryOf(c), EntryOf(d)} \subseteq res

(* C8 *)

FrameOfCall ==
    /\ Slots(map0) \subseteq Slots(res)
    /\ \A e \in map0 : <<e.key, e.loc>> \notin InsertedSlots => e \in res
    /\ FromDefault => map0 = DynMapDefault

\* no step of a running traversal removes a (key, location)
InsertOnlyStep == pc \notin {"idle", "done"} => Slots(res) \subseteq Slots(res')

\* C9: construction is insert-only at every step, entries of the initial map
\* that no traversed child is inserted over survive with their id, and
\* child_by_source is child_by_source_to on an empty map.
C9_InsertOnly == []FrameOfCall /\ [][InsertOnlyStep]_vars

C9_Witness ==
    /\ Done /\ entry = "child_by_source_to"
    /\ \E e \in map0 : <<e.key, e.loc>> \notin InsertedSlots /\ e \in res
    /\ InsertedSlots # {}
    /\ Cardinality(res) = Cardinality(map0) + 1

(* C10 *)

\* C10: every entry of the index is the entry of a traversed child of the
\* bucket's kind (or was in the map at entry); a trait or impl writes only to
\* FUNCTION, CONST and TYPE_ALIAS; a declaration of a kind without a bucket
\* writes nothing.
C10_Sound ==
    /\ \A e \in res :
        e \in map0 \/ \E c \in visited : HasBucket(c) /\ e = EntryOf(c)
    /\ self.as \in {"TraitId", "ImplId"} =>
        \A e \in res \ map0 : e.key \in {"FUNCTION", "CONST", "TYPE_ALIAS"}
    /\ \A c \in visited : ~HasBucket(c) => \A e \in res : e.id # c.id

C10_Witness ==
    /\ Done /\ FromDefault
    /\ self.as = "TraitId"
    /\ \E c \in visited : c.id.kind = "TypeAliasId" /\ EntryOf(c) \in res
    /\ Cardinality(res) = 2

===========================================================================
